---------------------------- MODULE Spec2Model ----------------------------
(***************************************************************************)
(* Model of the jec-fit-prototype sources:                                 *)
(*   prog/fit.cpp          the fit driver (main)                           *)
(*   src/PhotonJet.cpp     the photon+jet measurement                      *)
(*   include/HistMorph.hpp the three-point morphing of histograms          *)
(*                                                                         *)
(* Three specifications share this module:                                 *)
(*   Spec           one run of the fit driver, from the parsed options to  *)
(*                  the end of the process;                                *)
(*   SpecPhotonJet  construction and use of a PhotonJet measurement;       *)
(*   SpecMorph      construction and evaluation of a HistMorph.            *)
(* Each specification keeps the variables of the other two at their idle   *)
(* values.                                                                 *)
(***************************************************************************)
EXTENDS Integers, Sequences, FiniteSets, TLC

VARIABLES
    \* ---- fit driver (prog/fit.cpp) ----
    pc,             \* position in main
    optionsMap,     \* parsed command line: balance, multijet, constraint
    useMPF,         \* bool useMPF
    nuisanceDefs,   \* NuisanceDefinitions: sequence of registered names
    measurements,   \* list<unique_ptr<MeasurementBase>>
    cerr,           \* messages written to the error stream
    exitStatus,     \* how the process ended ("running" while it has not)
    nPars, nPOI,    \* unsigned const nPars, nPOI
    loopIndex,      \* the i of the two SetVariable loops
    minimizer,      \* calls received by the Minuit2 minimizer and its outcome
    cout,           \* summary printed on the standard output
    resFile,        \* tokens written to the result file
    \* ---- PhotonJet (src/PhotonJet.cpp) ----
    pjInput,        \* the input file handed to the constructor
    pjState,        \* "none" | "constructed" | "threw" | "crashed"
    bins,           \* std::vector<PtBin> bins
    pjCall,         \* last call made on the object and what it returned
    \* ---- HistMorph (include/HistMorph.hpp) ----
    central, up, down,  \* reference points
    morphState,     \* "none" | "constructed"
    morphCall       \* last Eval call and what it returned

driverVars == <<pc, optionsMap, useMPF, nuisanceDefs, measurements, cerr,
                exitStatus, nPars, nPOI, loopIndex, minimizer, cout, resFile>>
pjVars     == <<pjInput, pjState, bins, pjCall>>
morphVars  == <<central, up, down, morphState, morphCall>>
vars       == <<driverVars, pjVars, morphVars>>

(***************************************************************************)
(* Bounds of the model.                                                    *)
(***************************************************************************)
\* largest number of comma-separated fields in a constraint text
MaxFields == 4
\* largest number of nuisances the multijet measurement registers
MaxNuisances == 1
\* largest number of data points of the multijet measurement
MaxDim == 1
\* largest status code the minimizer reports (0 is success)
MaxStatus == 1
\* largest number of points in the photon+jet input graph
MaxBins == 2
\* largest number of bins of a morphing template
MaxMorphBins == 2

(***************************************************************************)
(* Small helpers.                                                          *)
(***************************************************************************)
Min(a, b) == IF a <= b THEN a ELSE b
Abs(a) == IF a < 0 THEN -a ELSE a

RECURSIVE Gcd(_, _)
Gcd(a, b) == IF b = 0 THEN a ELSE Gcd(b, a % b)

(***************************************************************************)
(* std::string as a sequence of one-character strings.  Positions are      *)
(* zero-based as in the C++ code; npos is the "not found" value.           *)
(***************************************************************************)
npos == -1

Digits == {"0", "1", "2", "3", "4", "5", "6", "7", "8", "9"}
DigitValue(c) ==
    CASE c = "0" -> 0 [] c = "1" -> 1 [] c = "2" -> 2 [] c = "3" -> 3
      [] c = "4" -> 4 [] c = "5" -> 5 [] c = "6" -> 6 [] c = "7" -> 7
      [] c = "8" -> 8 [] c = "9" -> 9
DigitChar(d) ==
    CASE d = 0 -> "0" [] d = 1 -> "1" [] d = 2 -> "2" [] d = 3 -> "3"
      [] d = 4 -> "4" [] d = 5 -> "5" [] d = 6 -> "6" [] d = 7 -> "7"
      [] d = 8 -> "8" [] d = 9 -> "9"

\* std::string::find(ch, pos)
RECURSIVE StrFind(_, _, _)
StrFind(s, ch, pos) ==
    IF pos >= Len(s) THEN npos
    ELSE IF s[pos + 1] = ch THEN pos
    ELSE StrFind(s, ch, pos + 1)

\* std::string::substr(pos, count): count characters from pos, or up to the end
StrSubstr(s, pos, count) == SubSeq(s, pos + 1, Min(pos + count, Len(s)))
\* std::string::substr(pos): from pos to the end
StrSubstrFrom(s, pos) == SubSeq(s, pos + 1, Len(s))

\* std::to_string(unsigned)
RECURSIVE to_string(_)
to_string(n) ==
    IF n < 10 THEN <<DigitChar(n)>>
    ELSE to_string(n \div 10) \o <<DigitChar(n % 10)>>

\* boost::to_lower on the letters the option values use
LowerChar(c) ==
    CASE c = "P" -> "p" [] c = "T" -> "t" [] c = "B" -> "b" [] c = "A" -> "a"
      [] c = "L" -> "l" [] c = "M" -> "m" [] c = "F" -> "f" [] c = "Z" -> "z"
      [] OTHER -> c
ToLower(s) == [k \in 1..Len(s) |-> LowerChar(s[k])]

(***************************************************************************)
(* double values read from text: sign, decimal mantissa and decimal        *)
(* exponent, kept exactly (trailing zeros of the mantissa are moved into   *)
(* the exponent so that equal numbers have one representation).            *)
(***************************************************************************)
RECURSIVE DblNorm(_, _, _)
DblNorm(neg, mant, exp) ==
    IF mant = 0 THEN [neg |-> neg, mant |-> 0, exp |-> 0]
    ELSE IF mant % 10 = 0 THEN DblNorm(neg, mant \div 10, exp + 1)
    ELSE [neg |-> neg, mant |-> mant, exp |-> exp]

RECURSIVE NumDigits(_)
NumDigits(n) == IF n < 10 THEN 1 ELSE 1 + NumDigits(n \div 10)

RECURSIVE DigitsToNat(_)
DigitsToNat(ds) ==
    IF ds = <<>> THEN 0
    ELSE 10 * DigitsToNat(SubSeq(ds, 1, Len(ds) - 1)) + DigitValue(ds[Len(ds)])

Spaces == {" ", "\t", "\n"}

\* first index >= k (one-based) of s that holds no white space
RECURSIVE SkipSpaces(_, _)
SkipSpaces(s, k) ==
    IF k <= Len(s) /\ s[k] \in Spaces THEN SkipSpaces(s, k + 1) ELSE k

\* first index >= k (one-based) of s that holds no decimal digit
RECURSIVE DigitRunEnd(_, _)
DigitRunEnd(s, k) ==
    IF k <= Len(s) /\ s[k] \in Digits THEN DigitRunEnd(s, k + 1) ELSE k

(***************************************************************************)
(* std::stod(str): strtod on the longest prefix of str that is a decimal   *)
(* floating-point literal (white space, sign, digits with an optional      *)
(* point, optional exponent); whatever follows the literal is ignored.     *)
(* Throws invalid_argument when no conversion can be made and out_of_range *)
(* when strtod reports ERANGE (decimal magnitude beyond 308 or below       *)
(* -308).  Hexadecimal literals, "inf" and "nan" are not modelled: the     *)
(* texts of the model never contain them.                                  *)
(***************************************************************************)
HasCharAt(s, k, set) == 1 <= k /\ k <= Len(s) /\ s[k] \in set

\* index of the first character after white space and sign
MantissaStart(str) ==
    IF HasCharAt(str, SkipSpaces(str, 1), {"+", "-"})
    THEN SkipSpaces(str, 1) + 1 ELSE SkipSpaces(str, 1)

\* index after the fraction, given the index after the integer digits
FractionEnd(str, intEnd) ==
    IF HasCharAt(str, intEnd, {"."}) THEN DigitRunEnd(str, intEnd + 1) ELSE intEnd

\* the digits between the point at intEnd and fracEnd
FractionDigits(str, intEnd, fracEnd) ==
    IF fracEnd > intEnd THEN SubSeq(str, intEnd + 1, fracEnd - 1) ELSE <<>>

\* value of the exponent part that starts at index mantEnd, 0 without one
ExponentAt(str, mantEnd) ==
    IF ~HasCharAt(str, mantEnd, {"e", "E"}) THEN 0
    ELSE IF HasCharAt(str, mantEnd + 1, {"-"})
    THEN -DigitsToNat(SubSeq(str, mantEnd + 2, DigitRunEnd(str, mantEnd + 2) - 1))
    ELSE IF HasCharAt(str, mantEnd + 1, {"+"})
    THEN DigitsToNat(SubSeq(str, mantEnd + 2, DigitRunEnd(str, mantEnd + 2) - 1))
    ELSE DigitsToNat(SubSeq(str, mantEnd + 1, DigitRunEnd(str, mantEnd + 1) - 1))

\* the converted value, or the exception strtod's ERANGE becomes
StodRange(val) ==
    IF val.mant # 0 /\ (NumDigits(val.mant) + val.exp - 1 > 308
                        \/ NumDigits(val.mant) + val.exp - 1 < -308)
    THEN [kind |-> "out_of_range", val |-> DblNorm(FALSE, 0, 0)]
    ELSE [kind |-> "ok", val |-> val]

StodValue(neg, intDigits, fracDigits, expVal) ==
    IF Len(intDigits) + Len(fracDigits) = 0
    THEN [kind |-> "invalid_argument", val |-> DblNorm(FALSE, 0, 0)]
    ELSE StodRange(DblNorm(neg, DigitsToNat(intDigits \o fracDigits),
                           expVal - Len(fracDigits)))

StodScan(str, p1, intEnd, fracEnd) ==
    StodValue(HasCharAt(str, p1 - 1, {"-"}),
              SubSeq(str, p1, intEnd - 1),
              FractionDigits(str, intEnd, fracEnd),
              ExponentAt(str, fracEnd))

stod(str) ==
    StodScan(str, MantissaStart(str),
             DigitRunEnd(str, MantissaStart(str)),
             FractionEnd(str, DigitRunEnd(str, MantissaStart(str))))

(***************************************************************************)
(*                    The fit driver, prog/fit.cpp                         *)
(***************************************************************************)
Str_PtBal == <<"P", "t", "B", "a", "l">>
Str_MPF   == <<"M", "P", "F">>
Str_ZBal  == <<"Z", "B", "a", "l">>
Str_mpf   == <<"m", "p", "f">>
Str_ptbal == <<"p", "t", "b", "a", "l">>

\* values of --balance given on the command line (the default is PtBal)
BalanceNames == {Str_PtBal, Str_MPF, Str_ZBal}

\* the file named by --multijet: whether it can be read, the number of
\* nuisances the measurement built from it registers, and its data points
MultijetFiles ==
    {[readable |-> FALSE, nuisances |-> 0, dim |-> 0]} \cup
    [readable : {TRUE}, nuisances : 0..MaxNuisances, dim : 1..MaxDim]
MultijetOptions ==
    {[count |-> 0, file |-> [readable |-> FALSE, nuisances |-> 0, dim |-> 0]]}
    \cup [count : {1}, file : MultijetFiles]

\* the fields a constraint text is made of: no number at all, numbers, a
\* number followed by something else, a number too large for a double
FieldKinds ==
    { <<>>, <<"1">>, <<"2">>, <<"1", "x">>, <<"1", "e", "9", "9", "9">> }

\* every text of exactly n fields joined by commas
RECURSIVE TextsOfFields(_)
TextsOfFields(n) ==
    IF n = 1 THEN FieldKinds
    ELSE { t \o <<",">> \o f : t \in TextsOfFields(n - 1), f \in FieldKinds }

\* values of --constraint: every text of 1..MaxFields fields
ConstraintTexts == UNION { TextsOfFields(n) : n \in 1..MaxFields }
ConstraintOptions ==
    {[count |-> 0, text |-> <<>>]} \cup [count : {1}, text : ConstraintTexts]

\* double ptRef = 208.
DefaultPtRef == DblNorm(FALSE, 208, 0)

\* the pieces assigned with target and uncertainty exchanged
AssignFieldsSwapped(commaPos2, vals) ==
    IF commaPos2 = npos
    THEN [ptRef |-> DefaultPtRef, targetCorr |-> vals[2], relUnc |-> vals[1]]
    ELSE [ptRef |-> vals[1], targetCorr |-> vals[3], relUnc |-> vals[2]]

\* lines 110-121: which converted piece goes to which variable
AssignFields(commaPos2, vals) ==
    IF commaPos2 = npos
    THEN [ptRef |-> DefaultPtRef, targetCorr |-> vals[1], relUnc |-> vals[2]]
    ELSE [ptRef |-> vals[1], targetCorr |-> vals[2], relUnc |-> vals[3]]

(* Lines 95-127: the text is cut at its first and second comma and the     *)
(* pieces go through stod.  With one comma: ptRef takes the default and    *)
(* the pieces are targetCorr, relUnc.  With two: ptRef, targetCorr,        *)
(* relUnc, where the middle piece is substr(commaPos1 + 1, commaPos2),     *)
(* whose second argument is a length.  invalid_argument is caught and      *)
(* turned into the parse error; out_of_range is not caught.                *)
ParseConstraint(optionText) ==
    LET commaPos1 == StrFind(optionText, ",", 0)
        commaPos2 == StrFind(optionText, ",", commaPos1 + 1)
        zero == DblNorm(FALSE, 0, 0)
        nothing == [ptRef |-> zero, targetCorr |-> zero, relUnc |-> zero]
        \* the stod calls in the order the code makes them
        calls ==
            IF commaPos2 = npos
            THEN << stod(StrSubstr(optionText, 0, commaPos1)),
                    stod(StrSubstrFrom(optionText, commaPos1 + 1)) >>
            ELSE << stod(StrSubstr(optionText, 0, commaPos1)),
                    stod(StrSubstr(optionText, commaPos1 + 1, commaPos2)),
                    stod(StrSubstrFrom(optionText, commaPos2 + 1)) >>
        thrown == { k \in 1..Len(calls) : calls[k].kind # "ok" }
        firstThrown == CHOOSE k \in thrown : \A j \in thrown : k <= j
    IN  IF commaPos1 = npos THEN [kind |-> "parse_error", fields |-> nothing]
        ELSE IF thrown # {}
        THEN IF calls[firstThrown].kind = "invalid_argument"
             THEN [kind |-> "parse_error", fields |-> nothing]
             ELSE [kind |-> "out_of_range", fields |-> nothing]
        ELSE [kind |-> "ok",
              fields |-> AssignFields(commaPos2, [k \in 1..Len(calls) |-> calls[k].val])]

\* messages of the error stream
MsgBalance(name)    == [text |-> "Do not recognize balance variable", arg |-> name]
MsgConstraint(text) == [text |-> "Failed to parse constraint", arg |-> text]
MsgNoMeasurements   == [text |-> "No measurements requested.", arg |-> <<>>]

\* name the nuisance registry gives to index k
NuisanceName(k) == <<"n", "u", "i", "s">> \o to_string(k)

\* JetCorrStd2P: the standard parameterization has two parameters
JetCorrStd2P_NumParams == 2

\* CombLossFunction::GetNumParams: parameters of the correction plus nuisances
GetNumParams == JetCorrStd2P_NumParams + Len(nuisanceDefs)

RECURSIVE SumDims(_)
SumDims(ms) == IF ms = <<>> THEN 0 ELSE ms[1].dim + SumDims(Tail(ms))

\* CombLossFunction::GetNDF: data points minus parameters of interest
GetNDF == SumDims(measurements) - JetCorrStd2P_NumParams

NoMinimizer == [calls |-> <<>>, minimized |-> FALSE, status |-> 0, covStatus |-> 0]

DriverIdle ==
    /\ pc = "idle" /\ optionsMap = <<>> /\ useMPF = FALSE
    /\ nuisanceDefs = <<>> /\ measurements = <<>> /\ cerr = <<>>
    /\ exitStatus = "running" /\ nPars = 0 /\ nPOI = 0 /\ loopIndex = 0
    /\ minimizer = NoMinimizer /\ cout = <<>> /\ resFile = <<>>
PhotonJetIdle ==
    /\ pjInput = <<>> /\ pjState = "idle" /\ bins = <<>> /\ pjCall = <<>>
MorphIdle ==
    /\ central = <<>> /\ up = <<>> /\ down = <<>>
    /\ morphState = "idle" /\ morphCall = <<>>

DriverInit ==
    /\ pc = "balance"
    /\ optionsMap \in [balance : BalanceNames, multijet : MultijetOptions,
                       constraint : ConstraintOptions]
    /\ useMPF = FALSE
    /\ nuisanceDefs = <<>> /\ measurements = <<>> /\ cerr = <<>>
    /\ exitStatus = "running" /\ nPars = 0 /\ nPOI = 0 /\ loopIndex = 0
    /\ minimizer = NoMinimizer /\ cout = <<>> /\ resFile = <<>>

Init == DriverInit /\ PhotonJetIdle /\ MorphIdle

\* return EXIT_FAILURE after a message on cerr
ExitFailure(msg) ==
    /\ cerr' = Append(cerr, msg)
    /\ exitStatus' = "EXIT_FAILURE"
    /\ pc' = "done"

\* lines 61-72
CheckBalance ==
    /\ pc = "balance"
    /\ LET balanceVar == ToLower(optionsMap.balance)
       IN  IF balanceVar = Str_mpf
           THEN /\ useMPF' = TRUE /\ pc' = "multijet"
                /\ UNCHANGED <<cerr, exitStatus>>
           ELSE IF balanceVar # Str_ptbal
           THEN /\ ExitFailure(MsgBalance(optionsMap.balance))
                /\ UNCHANGED useMPF
           ELSE /\ pc' = "multijet"
                /\ UNCHANGED <<useMPF, cerr, exitStatus>>
    /\ UNCHANGED <<optionsMap, nuisanceDefs, measurements, nPars, nPOI,
                   loopIndex, minimizer, cout, resFile>>
    /\ UNCHANGED <<pjVars, morphVars>>

\* lines 81-89: the constructor registers the nuisances of the measurement;
\* an exception it throws is caught nowhere in main and ends the process
ConstructMultijet ==
    /\ pc = "multijet"
    /\ IF optionsMap.multijet.count = 0
       THEN /\ pc' = "constraint"
            /\ UNCHANGED <<nuisanceDefs, measurements, exitStatus>>
       ELSE IF ~optionsMap.multijet.file.readable
       THEN /\ exitStatus' = "terminate" /\ pc' = "done"
            /\ UNCHANGED <<nuisanceDefs, measurements>>
       ELSE /\ nuisanceDefs' =
                [k \in 1..optionsMap.multijet.file.nuisances |-> NuisanceName(k - 1)]
            /\ measurements' = Append(measurements,
                [type |-> "MultijetCrawlingBins",
                 args |-> <<IF useMPF THEN "MPF" ELSE "PtBal", 0, 1600>>,
                 dim |-> optionsMap.multijet.file.dim])
            /\ pc' = "constraint"
            /\ UNCHANGED exitStatus
    /\ UNCHANGED <<optionsMap, useMPF, cerr, nPars, nPOI, loopIndex, minimizer,
                   cout, resFile>>
    /\ UNCHANGED <<pjVars, morphVars>>

\* lines 91-132
AddConstraint ==
    /\ pc = "constraint"
    /\ IF optionsMap.constraint.count = 0
       THEN /\ pc' = "check"
            /\ UNCHANGED <<measurements, cerr, exitStatus>>
       ELSE LET optionText == optionsMap.constraint.text
                parsed == ParseConstraint(optionText)
            IN  IF parsed.kind = "parse_error"
                THEN /\ ExitFailure(MsgConstraint(optionText))
                     /\ UNCHANGED measurements
                ELSE IF parsed.kind = "out_of_range"
                THEN /\ exitStatus' = "terminate" /\ pc' = "done"
                     /\ UNCHANGED <<measurements, cerr>>
                ELSE /\ measurements' = Append(measurements,
                         [type |-> "JetCorrConstraint",
                          args |-> <<parsed.fields.ptRef, parsed.fields.targetCorr,
                                     parsed.fields.relUnc>>,
                          dim |-> 1])
                     /\ pc' = "check"
                     /\ UNCHANGED <<cerr, exitStatus>>
    /\ UNCHANGED <<optionsMap, useMPF, nuisanceDefs, nPars, nPOI, loopIndex,
                   minimizer, cout, resFile>>
    /\ UNCHANGED <<pjVars, morphVars>>

\* lines 134-148
BuildLossFunction ==
    /\ pc = "check"
    /\ IF measurements = <<>>
       THEN /\ ExitFailure(MsgNoMeasurements)
            /\ UNCHANGED <<nPars, nPOI, loopIndex>>
       ELSE /\ nPars' = GetNumParams
            /\ nPOI' = GetNumParams - Len(nuisanceDefs)
            /\ loopIndex' = 0
            /\ pc' = "poi"
            /\ UNCHANGED <<cerr, exitStatus>>
    /\ UNCHANGED <<optionsMap, useMPF, nuisanceDefs, measurements, minimizer,
                   cout, resFile>>
    /\ UNCHANGED <<pjVars, morphVars>>

\* values of the minimizer's configuration
StepPOI      == "1e-2"
StepNuisance == "1."
\* the limits of a nuisance given to a parameter of interest
LimitsPOIWide == <<-5, 5>>
LimitsPOI      == <<-1, 1>>
LimitsNuisance == <<-5, 5>>

\* registry index of the nuisance configured at flat index i
NuisanceIndex(i) == i - nPOI

SetVariable(ivar, name, val, step) ==
    [op |-> "SetVariable", ivar |-> ivar, name |-> name, val |-> val,
     step |-> step, limits |-> <<0, 0>>]
SetVariableLimits(ivar, limits) ==
    [op |-> "SetVariableLimits", ivar |-> ivar, name |-> <<>>, val |-> 0,
     step |-> "", limits |-> limits]

\* lines 163-167, one iteration of the loop (or its end)
SetPOI ==
    /\ pc = "poi"
    /\ IF loopIndex < nPOI
       THEN /\ minimizer' = [minimizer EXCEPT !.calls = @ \o
                  << SetVariable(loopIndex, <<"p">> \o to_string(loopIndex), 0, StepPOI),
                     SetVariableLimits(loopIndex, LimitsPOI) >>]
            /\ loopIndex' = loopIndex + 1
            /\ UNCHANGED pc
       ELSE /\ loopIndex' = nPOI
            /\ pc' = "nuisances"
            /\ UNCHANGED minimizer
    /\ UNCHANGED <<optionsMap, useMPF, nuisanceDefs, measurements, cerr,
                   exitStatus, nPars, nPOI, cout, resFile>>
    /\ UNCHANGED <<pjVars, morphVars>>

\* lines 169-173, one iteration of the loop (or its end)
SetNuisance ==
    /\ pc = "nuisances"
    /\ IF loopIndex < nPars
       THEN /\ minimizer' = [minimizer EXCEPT !.calls = @ \o
                  << SetVariable(loopIndex, nuisanceDefs[NuisanceIndex(loopIndex) + 1],
                                 0, StepNuisance),
                     SetVariableLimits(loopIndex, LimitsNuisance) >>]
            /\ loopIndex' = loopIndex + 1
            /\ UNCHANGED pc
       ELSE /\ pc' = "minimize"
            /\ UNCHANGED <<minimizer, loopIndex>>
    /\ UNCHANGED <<optionsMap, useMPF, nuisanceDefs, measurements, cerr,
                   exitStatus, nPars, nPOI, cout, resFile>>
    /\ UNCHANGED <<pjVars, morphVars>>

\* covariance-matrix status of Minuit2, of which three values are drawn:
\* -1 not available, 0 not calculated, 3 accurate
CovStatuses == {-1, 0, 3}

\* line 177: the minimizer ends with whatever status it ends with
Minimize ==
    /\ pc = "minimize"
    /\ \E st \in 0..MaxStatus, cs \in CovStatuses :
          minimizer' = [minimizer EXCEPT !.minimized = TRUE, !.status = st,
                                         !.covStatus = cs]
    /\ pc' = "print"
    /\ UNCHANGED <<optionsMap, useMPF, nuisanceDefs, measurements, cerr,
                   exitStatus, nPars, nPOI, loopIndex, cout, resFile>>
    /\ UNCHANGED <<pjVars, morphVars>>

(* What the streams receive.  A literal piece of text is the token         *)
(* Lit(text); a number is the token Val(kind, i, j): the minimizer's X()[i],*)
(* Errors()[i], CovMatrix(i, j), MinValue(), Status(), CovMatrixStatus(),  *)
(* the loss function's NDF (i is its value) and TMath::Prob of MinValue    *)
(* and NDF (i is the NDF).  The driver computes with none of the           *)
(* minimizer's numbers, so they stay symbolic.                             *)
Lit(text) == [k |-> text, i |-> 0, j |-> 0]
Val(kind, i, j) == [k |-> kind, i |-> i, j |-> j]
NL == Lit("\n")
SP == Lit(" ")
PValue == Val("Prob", GetNDF, 0)

\* lines 181-196
PrintResults ==
    /\ pc = "print"
    /\ cout' = cout \o
         << Lit("Status: "), Val("Status", minimizer.status, 0), NL,
            Lit("Covariance matrix status: "),
            Val("CovMatrixStatus", minimizer.covStatus, 0), NL,
            Lit("Minimal value: "), Val("MinValue", 0, 0), NL,
            Lit("NDF: "), Val("NDF", GetNDF, 0), NL,
            Lit("p-value: "), PValue, NL >>
    /\ pc' = "save"
    /\ UNCHANGED <<optionsMap, useMPF, nuisanceDefs, measurements, cerr,
                   exitStatus, nPars, nPOI, loopIndex, minimizer, resFile>>
    /\ UNCHANGED <<pjVars, morphVars>>

\* lines 205-206: for (i < nPars) resFile << results[i] << " "
RECURSIVE WriteParams(_, _)
WriteParams(i, n) ==
    IF i >= n THEN <<>> ELSE <<Val("X", i, 0), SP>> \o WriteParams(i + 1, n)

\* a row written from the column of the matrix
RECURSIVE WriteCovRowTransposed(_, _, _)
WriteCovRowTransposed(i, j, n) ==
    IF j >= n THEN <<>>
    ELSE <<Val("Cov", j, i), SP>> \o WriteCovRowTransposed(i, j + 1, n)

\* lines 212-213: for (j < nPars) resFile << minimizer.CovMatrix(i, j) << " "
RECURSIVE WriteCovRow(_, _, _)
WriteCovRow(i, j, n) ==
    IF j >= n THEN <<>> ELSE <<Val("Cov", i, j), SP>> \o WriteCovRow(i, j + 1, n)

\* lines 210-216
RECURSIVE WriteCovMatrix(_, _)
WriteCovMatrix(i, n) ==
    IF i >= n THEN <<>>
    ELSE WriteCovRow(i, 0, n) \o <<NL>> \o WriteCovMatrix(i + 1, n)

\* lines 203-219: everything written to the result file
ResultFileText ==
    << Lit("# Fitted parameters"), NL >>
    \o WriteParams(0, nPars)
    \o << NL, NL, Lit("# Covariance matrix:"), NL >>
    \o WriteCovMatrix(0, nPars)
    \o << NL, Lit("# Minimal chi^2, NDF, p-value:"), NL >>
    \o << Val("MinValue", 0, 0), SP, Val("NDF", GetNDF, 0), SP, PValue, NL >>

\* lines 199-221
SaveResults ==
    /\ pc = "save"
    /\ resFile' = resFile \o ResultFileText
    /\ pc' = "exit"
    /\ UNCHANGED <<optionsMap, useMPF, nuisanceDefs, measurements, cerr,
                   exitStatus, nPars, nPOI, loopIndex, minimizer, cout>>
    /\ UNCHANGED <<pjVars, morphVars>>

\* an exit that treats a non-zero minimizer status as a failure
ExitOnlyIfConverged ==
    /\ pc = "exit"
    /\ exitStatus' = IF minimizer.status = 0 THEN "EXIT_SUCCESS" ELSE "EXIT_FAILURE"
    /\ pc' = "done"
    /\ UNCHANGED <<optionsMap, useMPF, nuisanceDefs, measurements, cerr,
                   nPars, nPOI, loopIndex, minimizer, cout, resFile>>
    /\ UNCHANGED <<pjVars, morphVars>>

\* lines 224-227
ExitSuccess ==
    /\ pc = "exit"
    /\ exitStatus' = "EXIT_SUCCESS"
    /\ pc' = "done"
    /\ UNCHANGED <<optionsMap, useMPF, nuisanceDefs, measurements, cerr,
                   nPars, nPOI, loopIndex, minimizer, cout, resFile>>
    /\ UNCHANGED <<pjVars, morphVars>>

(***************************************************************************)
(* double arithmetic for the measurements.  A value is the fraction n/d    *)
(* in lowest terms: d > 0 is a finite number, 1/0 and -1/0 are the         *)
(* infinities and 0/0 is NaN, combined as IEEE 754 combines them.  Finite  *)
(* results are exact (no rounding) and zero carries no sign.  The          *)
(* operations are functions, so TLC evaluates their arguments once.        *)
(***************************************************************************)
Nums == [n : Int, d : Nat]
Sign(n) == IF n > 0 THEN 1 ELSE IF n < 0 THEN -1 ELSE 0

RNorm[n \in Int, d \in Nat] ==
    IF d = 0 THEN [n |-> Sign(n), d |-> 0]
    ELSE [n |-> n \div Gcd(Abs(n), d), d |-> d \div Gcd(Abs(n), d)]
R(i) == [n |-> i, d |-> 1]
NaN == [n |-> 0, d |-> 0]
IsFinite(a) == a.d > 0

RAdd[a \in Nums, b \in Nums] ==
    IF a.d = 0 /\ b.d = 0 THEN (IF a.n = b.n THEN a ELSE NaN)
    ELSE RNorm[a.n * b.d + b.n * a.d, a.d * b.d]
RNeg[a \in Nums] == [n |-> -a.n, d |-> a.d]
RSub[a \in Nums, b \in Nums] == RAdd[a, RNeg[b]]
RMul[a \in Nums, b \in Nums] == RNorm[a.n * b.n, a.d * b.d]
RRecip[a \in Nums] ==
    IF a.n < 0 THEN [n |-> -a.d, d |-> -a.n] ELSE [n |-> a.d, d |-> a.n]
RDiv[a \in Nums, b \in Nums] == RMul[a, RRecip[b]]

(***************************************************************************)
(*                  PhotonJet, src/PhotonJet.cpp                           *)
(***************************************************************************)
\* points of the TGraphErrors: x, y and the error on y
GraphPoints == [x : {1, 2}, y : {0, 1}, ey : {0, 1}]

RECURSIVE SeqsUpTo(_, _)
SeqsUpTo(S, n) ==
    IF n = 0 THEN {<<>>}
    ELSE SeqsUpTo(S, n - 1) \cup
         { Append(q, e) : q \in { r \in SeqsUpTo(S, n - 1) : Len(r) = n - 1 }, e \in S }

\* the input file: whether TFile opens it, whether it holds the graph
\* resp_<method>chs_extrap_a30_eta00_13 as a TGraphErrors, and the graph
PhotonJetInputs ==
    {[opens |-> FALSE, hasGraph |-> FALSE, points |-> <<>>],
     [opens |-> TRUE, hasGraph |-> FALSE, points |-> <<>>]}
    \cup [opens : {TRUE}, hasGraph : {TRUE}, points : SeqsUpTo(GraphPoints, MaxBins)]

\* lines 43-46: the PtBin made from one point
PtBinOf(point) ==
    [ptPhoton |-> R(point.x), balanceRatio |-> R(point.y),
     unc2 |-> RMul[R(point.ey), R(point.ey)]]

\* any content a vector of PtBin can have
AnyBins == SeqsUpTo({ PtBinOf(pt) : pt \in GraphPoints }, MaxBins)

\* correction functions handed to Eval (JetCorrBase is abstract): constant
\* 0, constant 1, and the factor pt itself
Correctors == {"zero", "one", "linear"}
CorrectorEval(corrector, pt) ==
    CASE corrector = "zero" -> R(0)
      [] corrector = "one" -> R(1)
      [] corrector = "linear" -> pt

\* values of nuisances.photonScale
PhotonScales == {-1, 0, 1}

NoCall == [op |-> "none", corrector |-> "", photonScale |-> 0, dim |-> 0,
           chi2 |-> R(0)]

PhotonJetInit ==
    /\ pjInput \in PhotonJetInputs
    /\ pjState = "none"
    /\ bins = <<>>
    /\ pjCall = NoCall

InitPhotonJet == DriverIdle /\ PhotonJetInit /\ MorphIdle

(* Lines 12-50.  A file that does not open makes the constructor throw.    *)
(* A file without the graph (or with an object of another type under its   *)
(* name) leaves extrapRatio null, and line 36 calls GetN() through the     *)
(* null pointer: undefined behaviour, which is the process crashing or     *)
(* the constructor completing with any bins.                               *)
PhotonJetConstruct ==
    /\ pjState = "none"
    /\ \/ /\ ~pjInput.opens
          /\ pjState' = "threw"
          /\ UNCHANGED bins
       \/ /\ pjInput.opens /\ ~pjInput.hasGraph
          /\ pjState' = "crashed"
          /\ UNCHANGED bins
       \/ /\ pjInput.opens /\ ~pjInput.hasGraph
          /\ pjState' = "constructed"
          /\ bins' \in AnyBins
       \/ /\ pjInput.opens /\ pjInput.hasGraph
          /\ pjState' = "constructed"
          /\ bins' = [k \in 1..Len(pjInput.points) |-> PtBinOf(pjInput.points[k])]
    /\ UNCHANGED <<pjInput, pjCall>>
    /\ UNCHANGED <<driverVars, morphVars>>

\* lines 53-56
GetDim(b) == Len(b)

\* lines 66-70: what one bin adds to chi2
BinChi2(bin, corrector, photonScale) ==
    RDiv[ RMul[ RSub[ RDiv[bin.balanceRatio, RAdd[R(1), R(photonScale)]],
                      RDiv[R(1), CorrectorEval(corrector,
                                   RMul[bin.ptPhoton, RAdd[R(1), R(photonScale)]])] ],
                RSub[ RDiv[bin.balanceRatio, RAdd[R(1), R(photonScale)]],
                      RDiv[R(1), CorrectorEval(corrector,
                                   RMul[bin.ptPhoton, RAdd[R(1), R(photonScale)]])] ] ],
          bin.unc2 ]

\* lines 61-73: the loop over the bins, from chi2 = 0
RECURSIVE Chi2Loop(_, _, _, _)
Chi2Loop(chi2, b, corrector, photonScale) ==
    IF b = <<>> THEN chi2
    ELSE Chi2Loop(RAdd[chi2, BinChi2(b[1], corrector, photonScale)], Tail(b),
                  corrector, photonScale)

\* a variant that returns the chi2 per bin
EvalPerBin(b, corrector, photonScale) ==
    RDiv[Chi2Loop(R(0), b, corrector, photonScale), R(Len(b))]

\* lines 59-74
Eval(b, corrector, photonScale) == Chi2Loop(R(0), b, corrector, photonScale)

PhotonJetGetDim ==
    /\ pjState = "constructed"
    /\ pjCall' = [NoCall EXCEPT !.op = "GetDim", !.dim = GetDim(bins)]
    /\ UNCHANGED <<pjInput, pjState, bins>>
    /\ UNCHANGED <<driverVars, morphVars>>

PhotonJetEval ==
    /\ pjState = "constructed"
    /\ \E corrector \in Correctors, photonScale \in PhotonScales :
          pjCall' = [NoCall EXCEPT !.op = "Eval", !.corrector = corrector,
                                   !.photonScale = photonScale,
                                   !.chi2 = Eval(bins, corrector, photonScale)]
    /\ UNCHANGED <<pjInput, pjState, bins>>
    /\ UNCHANGED <<driverVars, morphVars>>

NextPhotonJet ==
    \/ PhotonJetConstruct
    \/ PhotonJetGetDim
    \/ PhotonJetEval

SpecPhotonJet == InitPhotonJet /\ [][NextPhotonJet]_vars

(***************************************************************************)
(*                 HistMorph, include/HistMorph.hpp                        *)
(* The header declares the class; the bodies follow its documentation and  *)
(* the design of the three-point morph: the reference values are           *)
(* reproduced at x = -1, 0, +1, the interpolation between them is blended  *)
(* with a smooth step, and the extrapolation beyond them is linear.        *)
(***************************************************************************)
\* reference values of a bin
RefValues == {-1, 0, 2}

\* reference points of 1..MaxMorphBins bins
RefSeqs == { q \in SeqsUpTo(RefValues, MaxMorphBins) : Len(q) >= 1 }

\* the x at which a morph is evaluated: -2, -3/2, ..., 3/2, 2
MorphXs == { RNorm[k, 2] : k \in -4..4 }

NoMorphCall == [op |-> "none", bin |-> 0, x |-> R(0), result |-> R(0)]

MorphInit ==
    /\ central = <<>> /\ up = <<>> /\ down = <<>>
    /\ morphState = "none"
    /\ morphCall = NoMorphCall

InitMorph == DriverIdle /\ PhotonJetIdle /\ MorphInit

\* HistMorph(central, up, down)
HistMorphCentralUpDown ==
    /\ morphState = "none"
    /\ \E c \in RefSeqs, u \in RefSeqs, d \in RefSeqs :
          /\ Len(c) = Len(u) /\ Len(u) = Len(d)
          /\ central' = c /\ up' = u /\ down' = d
    /\ morphState' = "central_up_down"
    /\ UNCHANGED morphCall
    /\ UNCHANGED <<driverVars, pjVars>>

\* HistMorph(up, down): central reference points are set to zero
HistMorphUpDown ==
    /\ morphState = "none"
    /\ \E u \in RefSeqs, d \in RefSeqs :
          /\ Len(u) = Len(d)
          /\ central' = [k \in 1..Len(u) |-> 0] /\ up' = u /\ down' = d
    /\ morphState' = "up_down"
    /\ UNCHANGED morphCall
    /\ UNCHANGED <<driverVars, pjVars>>

\* HistMorph::SmoothStep: odd, -1 up to x = -1 and +1 from x = +1 on
SmoothStep[x \in Nums] ==
    IF x.n >= x.d THEN R(1)
    ELSE IF x.n <= -x.d THEN R(-1)
    ELSE RDiv[ RMul[x, RAdd[ RMul[ RMul[x, x],
                                   RSub[RMul[R(3), RMul[x, x]], R(10)] ],
                             R(15) ]],
               R(8) ]

\* a morph without the smooth term: the straight line through down and up
HistMorphEvalLinear(bin, x) ==
    RAdd[ R(central[bin + 1]),
          RMul[ RDiv[x, R(2)], R(up[bin + 1] - down[bin + 1]) ] ]

\* HistMorph::Eval(bin, x), bin zero-based
HistMorphEval(bin, x) ==
    RAdd[ R(central[bin + 1]),
          RMul[ RDiv[x, R(2)],
                RAdd[ R(up[bin + 1] - down[bin + 1]),
                      RMul[ R(up[bin + 1] + down[bin + 1] - 2 * central[bin + 1]),
                            SmoothStep[x] ] ] ] ]

\* a call of Eval; morphCall holds it until the caller has taken the result
MorphEval ==
    /\ morphState \in {"central_up_down", "up_down"}
    /\ morphCall.op = "none"
    /\ \E bin \in 0..(Len(central) - 1), x \in MorphXs :
          morphCall' = [op |-> "Eval", bin |-> bin, x |-> x,
                        result |-> HistMorphEval(bin, x)]
    /\ UNCHANGED <<central, up, down, morphState>>
    /\ UNCHANGED <<driverVars, pjVars>>

\* the caller takes the result; the morph is unchanged and can be called again
MorphReturn ==
    /\ morphCall.op = "Eval"
    /\ morphCall' = NoMorphCall
    /\ UNCHANGED <<central, up, down, morphState>>
    /\ UNCHANGED <<driverVars, pjVars>>

NextMorph ==
    \/ HistMorphCentralUpDown
    \/ HistMorphUpDown
    \/ MorphEval
    \/ MorphReturn

SpecMorph == InitMorph /\ [][NextMorph]_vars

Next ==
    \/ CheckBalance
    \/ ConstructMultijet
    \/ AddConstraint
    \/ BuildLossFunction
    \/ SetPOI
    \/ SetNuisance
    \/ Minimize
    \/ PrintResults
    \/ SaveResults
    \/ ExitSuccess

Spec == Init /\ [][Next]_vars

(***************************************************************************)
(*                              The claims                                 *)
(***************************************************************************)
Range(q) == { q[k] : k \in 1..Len(q) }

\* the minimizer has received its whole configuration
Configured == pc = "minimize" \/ minimizer.minimized

\* positions of the calls of one kind made for flat index i
CallsFor(op, i) ==
    { k \in 1..Len(minimizer.calls) :
        minimizer.calls[k].op = op /\ minimizer.calls[k].ivar = i }

RECURSIVE SplitCommas(_, _)
SplitCommas(text, field) ==
    IF text = <<>> THEN <<field>>
    ELSE IF Head(text) = "," THEN <<field>> \o SplitCommas(Tail(text), <<>>)
    ELSE SplitCommas(Tail(text), Append(field, Head(text)))

\* of the fields the texts of the model are made of, those that are
\* entirely a number a double can hold are the non-empty runs of digits
IsNumberField(f) == f # <<>> /\ \A k \in 1..Len(f) : f[k] \in Digits
NumberOf(f) == DblNorm(FALSE, DigitsToNat(f), 0)

\* two or three comma-separated numbers
WellFormed(text) ==
    LET fields == SplitCommas(text, <<>>)
    IN  /\ Len(fields) \in {2, 3}
        /\ \A k \in 1..Len(fields) : IsNumberField(fields[k])

BalanceRecognized == ToLower(optionsMap.balance) \in {Str_mpf, Str_ptbal}

\* the run has gone through the handling of --constraint
ConstraintHandled ==
    /\ pc \notin {"balance", "multijet", "constraint"}
    /\ BalanceRecognized
    /\ ~(optionsMap.multijet.count = 1 /\ ~optionsMap.multijet.file.readable)

ConstraintMeasurements ==
    { k \in 1..Len(measurements) : measurements[k].type = "JetCorrConstraint" }

\* the options hold a configuration error
ConfigurationError ==
    \/ ~BalanceRecognized
    \/ optionsMap.constraint.count = 1 /\ ~WellFormed(optionsMap.constraint.text)
    \/ optionsMap.multijet.count = 0 /\ optionsMap.constraint.count = 0

\* C2: in a run whose options hold a configuration error the minimizer is
\* never invoked, the result file is never written, and the process ends
\* in failure (the failure status, or the abort of an uncaught exception).
C2_ConfigErrorBeforeFit ==
    ConfigurationError =>
        /\ ~minimizer.minimized
        /\ resFile = <<>>
        /\ pc = "done" => exitStatus \in {"EXIT_FAILURE", "terminate"}

\* C3: every constraint text that is not two or three comma-separated
\* numbers ends its handling in the parse-error exit: the message on the
\* error stream, the failure status, and no constraint measurement.
C3_MalformedRejected ==
    (/\ ConstraintHandled
     /\ optionsMap.constraint.count = 1
     /\ ~WellFormed(optionsMap.constraint.text)) =>
        /\ pc = "done"
        /\ exitStatus = "EXIT_FAILURE"
        /\ cerr = <<MsgConstraint(optionsMap.constraint.text)>>
        /\ ConstraintMeasurements = {}

\* the three values the claim gives for a well-formed text
ExpectedConstraint(text) ==
    LET fields == SplitCommas(text, <<>>)
    IN  IF Len(fields) = 3
        THEN << NumberOf(fields[1]), NumberOf(fields[2]), NumberOf(fields[3]) >>
        ELSE << DblNorm(FALSE, 208, 0), NumberOf(fields[1]), NumberOf(fields[2]) >>

\* C4: once a well-formed text "a,b,c" or "b,c" has been handled, exactly
\* one constraint measurement exists, the last of the list, constructed
\* with (a, b, c), respectively (208, b, c), as reference scale, target and
\* relative uncertainty; the process has not stopped over the text.
C4_FieldOrder ==
    (/\ ConstraintHandled
     /\ optionsMap.constraint.count = 1
     /\ WellFormed(optionsMap.constraint.text)) =>
        /\ Cardinality(ConstraintMeasurements) = 1
        /\ measurements[Len(measurements)].type = "JetCorrConstraint"
        /\ measurements[Len(measurements)].args =
              ExpectedConstraint(optionsMap.constraint.text)
        /\ cerr = <<>>
        /\ exitStatus \in {"running", "EXIT_SUCCESS"}

\* C4 witness: the text "2,1,2" has been turned into a measurement
C4_Witness ==
    /\ pc = "check"
    /\ optionsMap.constraint.count = 1
    /\ optionsMap.constraint.text = <<"2", ",", "1", ",", "2">>
    /\ Len(measurements) >= 1
    /\ measurements[Len(measurements)].type = "JetCorrConstraint"

\* C7: whatever status and covariance status the minimizer ended with, from
\* then on the process never fails, and when it has ended it has printed
\* both statuses, written parameters, covariance matrix, minimal chi-square,
\* NDF and p-value to the result file, and exited with the success status.
C7_NonConvergenceNotFatal ==
    minimizer.minimized =>
        /\ pc \in {"print", "save", "exit", "done"}
        /\ exitStatus \in {"running", "EXIT_SUCCESS"}
        /\ pc = "done" =>
            /\ exitStatus = "EXIT_SUCCESS"
            /\ Val("Status", minimizer.status, 0) \in Range(cout)
            /\ Val("CovMatrixStatus", minimizer.covStatus, 0) \in Range(cout)
            /\ \A i \in 0..(nPars - 1) : Val("X", i, 0) \in Range(resFile)
            /\ \A i, j \in 0..(nPars - 1) : Val("Cov", i, j) \in Range(resFile)
            /\ { Val("MinValue", 0, 0), Val("NDF", GetNDF, 0),
                 Val("Prob", GetNDF, 0) } \subseteq Range(resFile)

\* C7 witness: a run has ended after a minimization that did not converge
\* and has no covariance matrix
C7_Witness ==
    /\ pc = "done"
    /\ minimizer.minimized
    /\ minimizer.status # 0
    /\ minimizer.covStatus = -1

\* the lines of a stream from its token k on, each line as the values
\* between its spaces; a line ends at a newline
RECURSIVE LinesFrom(_, _, _)
LinesFrom(tokens, k, line) ==
    IF k > Len(tokens) THEN (IF line = <<>> THEN <<>> ELSE <<line>>)
    ELSE IF tokens[k] = NL THEN <<line>> \o LinesFrom(tokens, k + 1, <<>>)
    ELSE IF tokens[k] = SP THEN LinesFrom(tokens, k + 1, line)
    ELSE LinesFrom(tokens, k + 1, Append(line, tokens[k]))

\* the lines of the result file, each as its space-separated values
FileLines == LinesFrom(resFile, 1, <<>>)

ParamsLine == [k \in 1..nPars |-> Val("X", k - 1, 0)]
CovLines == [r \in 1..nPars |-> [k \in 1..nPars |-> Val("Cov", r - 1, k - 1)]]
SummaryLine == << Val("MinValue", 0, 0), Val("NDF", GetNDF, 0), Val("Prob", GetNDF, 0) >>

\* the result file has been written
FileSaved == pc = "exit" \/ (pc = "done" /\ minimizer.minimized)

\* C10 as stated: the file is the parameter line, a blank line, the nPars
\* rows of the covariance matrix, a blank line and the summary line, and
\* nothing else.
C10_LayoutAsStated ==
    FileSaved =>
        FileLines = <<ParamsLine, <<>>>> \o CovLines \o << <<>>, SummaryLine >>

\* C10 amended: each of the three sections is headed by a comment line;
\* apart from these three lines the file is as stated.
C10_LayoutWithComments ==
    /\ FileSaved =>
        FileLines =
            << <<Lit("# Fitted parameters")>>, ParamsLine, <<>>,
               <<Lit("# Covariance matrix:")>> >>
            \o CovLines
            \o << <<>>, <<Lit("# Minimal chi^2, NDF, p-value:")>>, SummaryLine >>
    /\ ~FileSaved => resFile = <<>>

\* C10 witness: a file with parameters of interest and a nuisance is written
C10_Witness ==
    /\ FileSaved
    /\ nPars = JetCorrStd2P_NumParams + 1
    /\ Len(FileLines) = nPars + 7

\* C5: on a measurement built from a graph, Eval returns a finite value for
\* every correction function and photon scale.
C5_EvalFinite ==
    (pjCall.op = "Eval" /\ pjInput.hasGraph) => IsFinite(pjCall.chi2)

\* C6: when the input file does not open or does not hold the graph, the
\* constructor ends by throwing, and no object exists.
C6_BadInputThrows ==
    (pjState # "none" /\ (~pjInput.opens \/ ~pjInput.hasGraph)) =>
        pjState = "threw"

\* C8: a measurement built from a graph has as many bins as the graph has
\* points, GetDim returns the number of bins, and Eval on zero bins returns
\* exactly 0 for every correction function and photon scale.
C8_EmptyMeasurement ==
    /\ (pjState = "constructed" /\ pjInput.hasGraph) =>
            Len(bins) = Len(pjInput.points)
    /\ pjCall.op = "GetDim" => pjCall.dim = Len(bins)
    /\ (pjCall.op = "Eval" /\ bins = <<>>) => pjCall.chi2 = R(0)

\* C8 witness: Eval has run on zero bins at photonScale = -1 with a
\* correction factor of zero
C8_Witness ==
    /\ pjState = "constructed"
    /\ pjInput.hasGraph /\ pjInput.points = <<>>
    /\ bins = <<>>
    /\ pjCall.op = "Eval"
    /\ pjCall.photonScale = -1
    /\ pjCall.corrector = "zero"

\* C9: Eval(bin, -1), Eval(bin, 0) and Eval(bin, +1) are the down, central
\* and up values of that bin, for every bin and whatever the other bins
\* hold; a morph built from up and down alone gives 0 at x = 0.
C9_ReferencePoints ==
    morphCall.op = "Eval" =>
        /\ morphCall.x = R(-1) => morphCall.result = R(down[morphCall.bin + 1])
        /\ morphCall.x = R(0) => morphCall.result = R(central[morphCall.bin + 1])
        /\ morphCall.x = R(1) => morphCall.result = R(up[morphCall.bin + 1])
        /\ (morphState = "up_down" /\ morphCall.x = R(0)) => morphCall.result = R(0)

\* C9 witness: the second bin of a morph whose bins differ and whose
\* variations are asymmetric has been evaluated at x = +1
C9_Witness ==
    /\ morphCall.op = "Eval"
    /\ morphCall.bin = 1
    /\ morphCall.x = R(1)
    /\ up[2] + down[2] # 2 * central[2]
    /\ up[1] # up[2]
    /\ morphCall.result = R(up[2])

=============================================================================
